---- MODULE Spec2Model ----
(***************************************************************************)
(* Model of build_wordlist.py: the SCOWL five-letter word list builder.    *)
(*                                                                         *)
(* Strings are sequences of Unicode code points.  The character universe   *)
(* of the model is Latin-1 (0..255) plus the Arabic-Indic digits           *)
(* (1632..1641); the character classes below are Python's str.isalpha,     *)
(* str.isspace, str.lower and the regex class \d restricted to it.         *)
(***************************************************************************)
EXTENDS Integers, Sequences, FiniteSets, TLC

VARIABLES
    pc,            \* position of the run inside main()
    tmp_dir,       \* TRUE while the TemporaryDirectory of main() exists
    url,           \* value returned by get_download_url()
    tarball,       \* content of scowl.tar.gz inside the temporary directory
    members,       \* tar.getmembers() inside extract_words
    idx,           \* position of the member loop of extract_words (1-based)
    raw_words,     \* raw_words of extract_words / argument of process_words
    files_read,    \* files_read of extract_words
    i,             \* position of the line loop of process_words (1-based)
    seen,          \* seen of process_words
    clean,         \* clean of process_words
    words,         \* value returned by process_words
    txt_written,   \* five_letter_words.txt has been (over)written
    json_written,  \* five_letter_words.json has been (over)written
    out_txt,       \* words stored in five_letter_words.txt
    out_json,      \* words stored in five_letter_words.json
    exit_status,   \* process exit status, -1 while the run is still going
    exit_reason    \* the message the run ended with

vars == <<pc, tmp_dir, url, tarball, members, idx, raw_words, files_read, i,
          seen, clean, words, txt_written, json_written, out_txt, out_json,
          exit_status, exit_reason>>

\* -------------------------------------------------------------------------
\* Bounds of the model
\* -------------------------------------------------------------------------
MaxTokens == 3      \* longest raw-token sequence drawn for process_words
MaxMembers == 2     \* most members of a downloaded archive

\* -------------------------------------------------------------------------
\* Configuration
\* -------------------------------------------------------------------------
MIN_LEVEL == 10
MAX_LEVEL == 70
FALLBACK_URL == "https://github.com/en-us/scowl/archive/refs/heads/master.tar.gz"

\* -------------------------------------------------------------------------
\* Characters and strings
\* -------------------------------------------------------------------------
Range(s) == {s[k] : k \in 1..Len(s)}

\* str.isspace, the characters str.strip() removes
IsSpace(c) == c \in (9..13) \cup (28..32) \cup {133, 160}

\* str.isalpha
IsAlpha(c) == c \in (65..90) \cup (97..122) \cup {170, 181, 186}
                     \cup (192..214) \cup (216..246) \cup (248..255)

\* word.encode("ascii") succeeds for the character
IsAscii(c) == c < 128

\* the regex class \d (Unicode decimal digits)
IsDigit(c) == c \in (48..57) \cup (1632..1641)

\* int() of one decimal digit
DigitValue(c) == IF c \in 48..57 THEN c - 48 ELSE c - 1632

\* str.lower of one character
LowerChar(c) == IF c \in (65..90) \cup (192..214) \cup (216..222) THEN c + 32 ELSE c

LowerStr_Identity(s) == s

\* str.lower
LowerStr(s) == [k \in 1..Len(s) |-> LowerChar(s[k])]

RECURSIVE LStrip(_)
LStrip(s) == IF s # <<>> /\ IsSpace(Head(s)) THEN LStrip(Tail(s)) ELSE s

RECURSIVE RStrip(_)
RStrip(s) == IF s # <<>> /\ IsSpace(s[Len(s)])
             THEN RStrip(SubSeq(s, 1, Len(s) - 1)) ELSE s

\* str.strip
Strip(s) == RStrip(LStrip(s))

\* a < b for Python strings: lexicographic by code point
StrLess(a, b) ==
    \E k \in 1..(Len(a) + 1) :
        /\ k <= Len(b)
        /\ \A j \in 1..(k - 1) : a[j] = b[j]
        /\ (k = Len(a) + 1 \/ a[k] < b[k])

RECURSIVE Insert(_, _)
Insert(w, s) == IF s = <<>> THEN <<w>>
                ELSE IF StrLess(Head(s), w) THEN <<Head(s)>> \o Insert(w, Tail(s))
                ELSE <<w>> \o s

RECURSIVE SortList_Insertion(_)
SortList_Insertion(s) == IF s = <<>> THEN <<>>
                         ELSE Insert(s[Len(s)], SortList_Insertion(SubSeq(s, 1, Len(s) - 1)))

SortList_Unsorted(s) == s

\* list.sort()
SortList(s) == SortList_Insertion(s)

\* -------------------------------------------------------------------------
\* process_words
\* -------------------------------------------------------------------------
Accepts_NoAsciiCheck(word) ==
    /\ word # <<>>
    /\ word[1] # 35
    /\ \A k \in 1..Len(word) : IsAlpha(word[k])
    /\ Len(word) = 5

\* the checks of the loop body that let a stripped token through
Accepts(word) ==
    /\ word # <<>>
    /\ word[1] # 35
    /\ \A k \in 1..Len(word) : IsAlpha(word[k])
    /\ \A k \in 1..Len(word) : IsAscii(word[k])
    /\ Len(word) = 5

FilterLine_NoDedupe(line, st) ==
    LET word == Strip(line) IN
    IF ~Accepts(word) THEN st
    ELSE [seen |-> st.seen \cup {LowerStr(word)}, clean |-> Append(st.clean, LowerStr(word))]

\* one iteration of the loop: st = [seen, clean] before, the result after
FilterLine(line, st) ==
    LET word == Strip(line) IN
    IF ~Accepts(word) THEN st
    ELSE LET word_lower == LowerStr(word) IN
         IF word_lower \in st.seen THEN st
         ELSE [seen |-> st.seen \cup {word_lower}, clean |-> Append(st.clean, word_lower)]

RECURSIVE FilterAll(_, _)
FilterAll(raw, st) == IF raw = <<>> THEN st
                      ELSE FilterAll(Tail(raw), FilterLine(Head(raw), st))

\* process_words as a function of its argument
ProcessWords(raw) == SortList(FilterAll(raw, [seen |-> {}, clean |-> <<>>]).clean)

\* -------------------------------------------------------------------------
\* Raw tokens drawn for process_words
\* -------------------------------------------------------------------------
W_apple == <<97, 112, 112, 108, 101>>                 \* "apple"
W_APPLE == <<65, 80, 80, 76, 69>>                     \* "APPLE"
W_Apple == <<65, 112, 112, 108, 101>>                 \* "Apple"
W_a_cat == <<97, 32, 99, 97, 116>>                    \* "a cat"
W_brick == <<98, 114, 105, 99, 107>>                  \* "brick"
W_comment == <<35, 99, 111, 109, 109, 101, 110, 116>> \* "#comment"
W_ab_cd == <<97, 98, 39, 99, 100>>                    \* "ab'cd"
W_12345 == <<49, 50, 51, 52, 53>>                     \* "12345"
W_fjord == <<102, 106, 111, 114, 100>>                \* "fjord"
W_empty == <<>>                                       \* ""
W_padded == <<32, 66, 114, 105, 99, 107, 9, 10>>      \* " Brick\t\n"
W_cafes == <<99, 97, 102, 233, 115>>                  \* "cafés"
W_word == <<119, 111, 114, 100>>                      \* "word"
W_wordle == <<119, 111, 114, 100, 108, 101>>          \* "wordle"

TokenPool == {W_apple, W_APPLE, W_Apple, W_brick, W_fjord, W_padded,
              W_cafes, W_12345, W_word, W_wordle}

ScenarioInput == <<W_apple, W_APPLE, W_a_cat, W_brick, W_comment, W_ab_cd,
                   W_12345, W_fjord, W_empty>>

BoundedSeq(S, n) == UNION {[1..m -> S] : m \in 0..n}

NoTarball == [state |-> "absent", entries |-> <<>>]

\* -------------------------------------------------------------------------
\* The loop of process_words
\* -------------------------------------------------------------------------
ProcessLine ==
    /\ pc = "process_words"
    /\ i <= Len(raw_words)
    /\ LET st == FilterLine(raw_words[i], [seen |-> seen, clean |-> clean]) IN
         /\ seen' = st.seen
         /\ clean' = st.clean
    /\ i' = i + 1
    /\ UNCHANGED <<pc, tmp_dir, url, tarball, members, idx, raw_words, files_read,
                   words, txt_written, json_written, out_txt, out_json,
                   exit_status, exit_reason>>

SortReturn ==
    /\ pc = "process_words"
    /\ i > Len(raw_words)
    /\ clean' = SortList(clean)
    /\ words' = clean'
    /\ pc' = "check_words"
    /\ UNCHANGED <<tmp_dir, url, tarball, members, idx, raw_words, files_read, i,
                   seen, txt_written, json_written, out_txt, out_json,
                   exit_status, exit_reason>>

InitFilter ==
    /\ pc = "process_words"
    /\ raw_words \in BoundedSeq(TokenPool, MaxTokens) \cup {ScenarioInput}
    /\ i = 1
    /\ seen = {}
    /\ clean = <<>>
    /\ words = <<>>
    /\ tmp_dir = FALSE
    /\ url = ""
    /\ tarball = NoTarball
    /\ members = <<>>
    /\ idx = 1
    /\ files_read = 0
    /\ txt_written = FALSE
    /\ json_written = FALSE
    /\ out_txt = <<>>
    /\ out_json = <<>>
    /\ exit_status = -1
    /\ exit_reason = ""

NextFilter == ProcessLine \/ SortReturn

SpecFilter == InitFilter /\ [][NextFilter]_vars

\* -------------------------------------------------------------------------
\* WORD_FILE_PATTERN and os.path.basename
\* -------------------------------------------------------------------------
Variants == {<<101, 110, 103, 108, 105, 115, 104>>,
             <<97, 109, 101, 114, 105, 99, 97, 110>>,
             <<98, 114, 105, 116, 105, 115, 104>>,
             <<99, 97, 110, 97, 100, 105, 97, 110>>,
             <<97, 117, 115, 116, 114, 97, 108, 105, 97, 110>>,
             <<118, 97, 114, 105, 97, 110, 116>>}
    \* english, american, british, canadian, australian, variant

WordSuffixes == {<<45, 119, 111, 114, 100>>, <<45, 119, 111, 114, 100, 115>>}
    \* "-word", "-words": the tails that -words? matches

\* os.path.basename: what follows the last "/"
Basename(name) ==
    LET slashes == {k \in 1..Len(name) : name[k] = 47} IN
    IF slashes = {} THEN name
    ELSE SubSeq(name, (CHOOSE k \in slashes : \A j \in slashes : j <= k) + 1, Len(name))

Group1_Unanchored(g) ==
    \E m \in 0..Len(g) :
        LET tail == LowerStr(SubSeq(g, m + 1, Len(g))) IN
        tail \in Variants \/ tail \in WordSuffixes

\* group 1 of the pattern, matched from the start of the name under
\* re.IGNORECASE: a variant name, or .*-words? where . is not a line feed
Group1(g) ==
    \/ LowerStr(g) \in Variants
    \/ \E m \in 0..Len(g) :
          /\ \A j \in 1..m : g[j] # 10
          /\ LowerStr(SubSeq(g, m + 1, Len(g))) \in WordSuffixes

\* the end of group 2: $ matches at the end of the name or before a final line feed
DigitsEnd(name) == IF name # <<>> /\ name[Len(name)] = 10 THEN Len(name) - 1 ELSE Len(name)

\* positions of the "\." of a match of WORD_FILE_PATTERN against the name
DotOfMatch(name) ==
    {k \in 1..Len(name) :
        /\ name[k] = 46
        /\ Group1(SubSeq(name, 1, k - 1))
        /\ k + 1 <= DigitsEnd(name)
        /\ \A j \in (k + 1)..DigitsEnd(name) : IsDigit(name[j])}

\* WORD_FILE_PATTERN.match(filename) is not None
Matches(name) == DotOfMatch(name) # {}

RECURSIVE IntOf(_)
\* int() of a string of decimal digits
IntOf(d) == IF d = <<>> THEN 0
            ELSE IntOf(SubSeq(d, 1, Len(d) - 1)) * 10 + DigitValue(d[Len(d)])

\* int(match.group(2))
Level(name) ==
    LET k == CHOOSE d \in DotOfMatch(name) : TRUE IN
    IntOf(SubSeq(name, k + 1, DigitsEnd(name)))

LevelInBounds_NoMax(level) == MIN_LEVEL <= level

\* MIN_LEVEL <= level <= MAX_LEVEL
LevelInBounds(level) == MIN_LEVEL <= level /\ level <= MAX_LEVEL

\* -------------------------------------------------------------------------
\* Archives the download can deliver
\* -------------------------------------------------------------------------
N_english_words_60 == <<101, 110, 103, 108, 105, 115, 104, 45, 119, 111, 114, 100, 115, 46, 54, 48>>
    \* 'english-words.60'
N_english_words_85 == <<101, 110, 103, 108, 105, 115, 104, 45, 119, 111, 114, 100, 115, 46, 56, 53>>
    \* 'english-words.85'
N_english_10 == <<101, 110, 103, 108, 105, 115, 104, 46, 49, 48>>
    \* 'english.10'
N_ENGLISH_70 == <<69, 78, 71, 76, 73, 83, 72, 46, 55, 48>>
    \* 'ENGLISH.70'
N_Foo_Word_35 == <<70, 111, 111, 45, 87, 111, 114, 100, 46, 51, 53>>
    \* 'Foo-Word.35'
N_british_9 == <<98, 114, 105, 116, 105, 115, 104, 46, 57>>
    \* 'british.9'
N_british_71 == <<98, 114, 105, 116, 105, 115, 104, 46, 55, 49>>
    \* 'british.71'
N_README == <<82, 69, 65, 68, 77, 69>>
    \* 'README'
N_american_words_20 == <<97, 109, 101, 114, 105, 99, 97, 110, 45, 119, 111, 114, 100, 115, 46, 50, 48>>
    \* 'american-words.20'
N_canadian_words_50 == <<99, 97, 110, 97, 100, 105, 97, 110, 45, 119, 111, 114, 100, 115, 46, 53, 48>>
    \* 'canadian-words.50'
N_variant_40 == <<118, 97, 114, 105, 97, 110, 116, 46, 52, 48>>
    \* 'variant.40'
N_english_60_nl == <<101, 110, 103, 108, 105, 115, 104, 46, 54, 48, 10>>
    \* 'english.60\n'
N_english_words_10_20 == <<101, 110, 103, 108, 105, 115, 104, 45, 119, 111, 114, 100, 115, 46, 49, 48, 46, 50, 48>>
    \* 'english-words.10.20'
N_xenglish_20 == <<120, 101, 110, 103, 108, 105, 115, 104, 46, 50, 48>>
    \* 'xenglish.20'
N_english_60x == <<101, 110, 103, 108, 105, 115, 104, 46, 54, 48, 120>>
    \* 'english.60x'
N_nl_words_60 == <<97, 10, 98, 45, 119, 111, 114, 100, 115, 46, 54, 48>>
    \* 'a\nb-words.60'
N_english_arabic_10 == <<101, 110, 103, 108, 105, 115, 104, 46, 1633, 1632>>
    \* 'english.١٠'
N_words_070 == <<45, 119, 111, 114, 100, 115, 46, 48, 55, 48>>
    \* '-words.070'
N_final_australian_30 == <<115, 99, 111, 119, 108, 47, 102, 105, 110, 97, 108, 47, 97, 117, 115, 116, 114, 97, 108, 105, 97, 110, 46, 51, 48>>
    \* 'scowl/final/australian.30'
N_english_10_README == <<101, 110, 103, 108, 105, 115, 104, 46, 49, 48, 47, 82, 69, 65, 68, 77, 69>>
    \* 'english.10/README'

\* kind "file": a regular file; "dir": extractfile returns None;
\* "dangling_link": a link whose target is not in the archive, extractfile
\* raises KeyError; "unreadable": fobj.read() raises
Member(name, kind, lines) == [name |-> name, kind |-> kind, lines |-> lines]

MemberPool == {
    Member(N_english_words_60, "file", <<W_fjord, W_word>>),
    Member(N_english_words_85, "file", <<W_brick>>),
    Member(N_english_10, "file", <<W_apple, W_APPLE>>),
    Member(N_ENGLISH_70, "file", <<W_Apple>>),
    Member(N_Foo_Word_35, "file", <<W_cafes>>),
    Member(N_british_9, "file", <<W_wordle>>),
    Member(N_british_71, "file", <<W_fjord>>),
    Member(N_README, "file", <<W_comment, W_apple>>),
    Member(N_american_words_20, "dir", <<>>),
    Member(N_canadian_words_50, "dangling_link", <<>>),
    Member(N_variant_40, "unreadable", <<W_brick>>),
    Member(N_english_60_nl, "file", <<W_12345>>),
    Member(N_english_words_10_20, "file", <<W_apple>>),
    Member(N_xenglish_20, "file", <<W_brick>>),
    Member(N_english_60x, "file", <<W_fjord>>),
    Member(N_nl_words_60, "file", <<W_apple>>),
    Member(N_english_arabic_10, "file", <<W_a_cat>>),
    Member(N_words_070, "file", <<W_ab_cd>>),
    Member(N_final_australian_30, "file", <<>>),
    Member(N_english_10_README, "file", <<W_brick>>)}

Archives == BoundedSeq(MemberPool, MaxMembers)

\* what the download leaves in scowl.tar.gz: a readable archive, bytes that
\* are not gzip data (tarfile.ReadError), or a gzip stream cut short (EOFError)
Tarballs == {[state |-> "ok", entries |-> a] : a \in Archives}
            \cup {[state |-> "not_gzip", entries |-> <<>>],
                  [state |-> "truncated_gzip", entries |-> <<>>]}

\* tarball_url values of the release metadata
TarballUrls == {"https://api.github.com/repos/en-us/scowl/tarball/latest"}

\* outcomes of the metadata query
MetaOutcomes == {"tarball_url", "url_error", "json_error", "missing_field",
                 "bad_encoding", "not_an_object", "read_timeout"}

\* the exceptions the except clause of get_download_url catches
MetaCaught == {"url_error", "json_error"}

\* outcomes of the archive download
DownloadOutcomes == {"ok", "url_error", "other_error"}

\* outcomes of writing the two output files
SaveOutcomes == {"ok", "txt_error", "json_error"}

\* -------------------------------------------------------------------------
\* main
\* -------------------------------------------------------------------------
Abort_LeavesDir(reason) ==
    /\ pc' = "exit"
    /\ exit_status' = 1
    /\ exit_reason' = reason
    /\ tmp_dir' = tmp_dir

\* SystemExit or an uncaught exception leaving the with block of main
Abort(reason) ==
    /\ pc' = "exit"
    /\ exit_status' = 1
    /\ exit_reason' = reason
    /\ tmp_dir' = FALSE

\* with tempfile.TemporaryDirectory(prefix="scowl_") as tmp_dir
MainEnter ==
    /\ pc = "start"
    /\ tmp_dir' = TRUE
    /\ pc' = "get_download_url"
    /\ UNCHANGED <<url, tarball, members, idx, raw_words, files_read, i, seen,
                   clean, words, txt_written, json_written, out_txt, out_json,
                   exit_status, exit_reason>>

GetDownloadUrl ==
    /\ pc = "get_download_url"
    /\ \E o \in MetaOutcomes :
         \/ /\ o = "tarball_url"
            /\ \E u \in TarballUrls : url' = u
            /\ pc' = "download_tarball"
            /\ UNCHANGED <<tmp_dir, exit_status, exit_reason>>
         \/ /\ o \in MetaCaught \cup {"missing_field"}
            /\ url' = FALLBACK_URL
            /\ pc' = "download_tarball"
            /\ UNCHANGED <<tmp_dir, exit_status, exit_reason>>
         \/ /\ o \notin MetaCaught \cup {"tarball_url", "missing_field"}
            /\ Abort("Traceback in get_download_url")
            /\ UNCHANGED url
    /\ UNCHANGED <<tarball, members, idx, raw_words, files_read, i, seen, clean,
                   words, txt_written, json_written, out_txt, out_json>>

DownloadTarball ==
    /\ pc = "download_tarball"
    /\ \E o \in DownloadOutcomes :
         \/ /\ o = "ok"
            /\ tarball' \in Tarballs
            /\ pc' = "extract_words"
            /\ UNCHANGED <<tmp_dir, exit_status, exit_reason>>
         \/ /\ o = "url_error"
            /\ Abort("Download failed")
            /\ UNCHANGED tarball
         \/ /\ o = "other_error"
            /\ Abort("Traceback in download_tarball")
            /\ UNCHANGED tarball
    /\ UNCHANGED <<url, members, idx, raw_words, files_read, i, seen, clean,
                   words, txt_written, json_written, out_txt, out_json>>

\* tarfile.open(tarball_path, "r:gz") and tar.getmembers()
ExtractOpen ==
    /\ pc = "extract_words"
    /\ raw_words' = <<>>
    /\ files_read' = 0
    /\ \/ /\ tarball.state = "ok"
          /\ members' = tarball.entries
          /\ idx' = 1
          /\ pc' = "extract_loop"
          /\ UNCHANGED <<tmp_dir, exit_status, exit_reason>>
       \/ /\ tarball.state = "not_gzip"
          /\ Abort("Failed to read tarball")
          /\ UNCHANGED <<members, idx>>
       \/ /\ tarball.state = "truncated_gzip"
          /\ Abort("Traceback in tarfile.open")
          /\ UNCHANGED <<members, idx>>
    /\ UNCHANGED <<url, tarball, i, seen, clean, words, txt_written,
                   json_written, out_txt, out_json>>

\* one iteration of the member loop
ExtractMember ==
    /\ pc = "extract_loop"
    /\ idx <= Len(members)
    /\ LET member == members[idx]
           filename == Basename(member.name)
           skip == /\ idx' = idx + 1
                   /\ UNCHANGED <<pc, tmp_dir, raw_words, files_read,
                                  exit_status, exit_reason>>
       IN  IF ~Matches(filename) THEN skip
           ELSE IF ~LevelInBounds(Level(filename)) THEN skip
           ELSE IF member.kind = "dangling_link"
                THEN /\ Abort("Traceback in tar.extractfile")
                     /\ UNCHANGED <<idx, raw_words, files_read>>
           ELSE IF member.kind = "dir" THEN skip
           ELSE IF member.kind = "unreadable" THEN skip
           ELSE /\ raw_words' = raw_words \o member.lines
                /\ files_read' = files_read + 1
                /\ idx' = idx + 1
                /\ UNCHANGED <<pc, tmp_dir, exit_status, exit_reason>>
    /\ UNCHANGED <<url, tarball, members, i, seen, clean, words, txt_written,
                   json_written, out_txt, out_json>>

\* extract_words returns, the with block of main ends, process_words starts
ExtractReturn ==
    /\ pc = "extract_loop"
    /\ idx > Len(members)
    /\ tmp_dir' = FALSE
    /\ pc' = "process_words"
    /\ i' = 1
    /\ seen' = {}
    /\ clean' = <<>>
    /\ UNCHANGED <<url, tarball, members, idx, raw_words, files_read, words,
                   txt_written, json_written, out_txt, out_json,
                   exit_status, exit_reason>>

IsEmptyResult_Never(w) == FALSE

\* not words
IsEmptyResult(w) == w = <<>>

\* if not words: ... sys.exit(1)
MainCheck ==
    /\ pc = "check_words"
    /\ IF IsEmptyResult(words)
       THEN /\ pc' = "exit"
            /\ exit_status' = 1
            /\ exit_reason' = "No words found"
       ELSE /\ pc' = "save_outputs"
            /\ UNCHANGED <<exit_status, exit_reason>>
    /\ UNCHANGED <<tmp_dir, url, tarball, members, idx, raw_words, files_read, i,
                   seen, clean, words, txt_written, json_written, out_txt, out_json>>

\* save_outputs and the end of main
SaveOutputs ==
    /\ pc = "save_outputs"
    /\ \E o \in SaveOutcomes :
         \/ /\ o = "ok"
            /\ txt_written' = TRUE /\ out_txt' = words
            /\ json_written' = TRUE /\ out_json' = words
            /\ pc' = "done" /\ exit_status' = 0 /\ exit_reason' = "Done"
         \/ /\ o = "txt_error"
            /\ pc' = "exit" /\ exit_status' = 1
            /\ exit_reason' = "Traceback in save_outputs"
            /\ UNCHANGED <<txt_written, out_txt, json_written, out_json>>
         \/ /\ o = "json_error"
            /\ txt_written' = TRUE /\ out_txt' = words
            /\ pc' = "exit" /\ exit_status' = 1
            /\ exit_reason' = "Traceback in save_outputs"
            /\ UNCHANGED <<json_written, out_json>>
    /\ UNCHANGED <<tmp_dir, url, tarball, members, idx, raw_words, files_read, i,
                   seen, clean, words>>

Init ==
    /\ pc = "start"
    /\ tmp_dir = FALSE
    /\ url = ""
    /\ tarball = NoTarball
    /\ members = <<>>
    /\ idx = 1
    /\ raw_words = <<>>
    /\ files_read = 0
    /\ i = 1
    /\ seen = {}
    /\ clean = <<>>
    /\ words = <<>>
    /\ txt_written = FALSE
    /\ json_written = FALSE
    /\ out_txt = <<>>
    /\ out_json = <<>>
    /\ exit_status = -1
    /\ exit_reason = ""

Next ==
    \/ MainEnter
    \/ GetDownloadUrl
    \/ DownloadTarball
    \/ ExtractOpen
    \/ ExtractMember
    \/ ExtractReturn
    \/ ProcessLine
    \/ SortReturn
    \/ MainCheck
    \/ SaveOutputs

Spec == Init /\ [][Next]_vars

\* -------------------------------------------------------------------------
\* Properties of process_words
\* -------------------------------------------------------------------------
Returned == pc = "check_words"

\* the acceptance predicate as the specification words it, on a trimmed token
PassesPredicate(t) ==
    /\ Len(t) > 0
    /\ t[1] # 35
    /\ \A k \in 1..Len(t) : t[k] \in (65..90) \cup (97..122) \cup (192..214)
                                     \cup (216..246) \cup (248..255) \cup {170, 181, 186}
    /\ \A k \in 1..Len(t) : t[k] \in 0..127
    /\ Len(t) = 5

Trimmed(t) ==
    LET keep == {k \in 1..Len(t) : ~IsSpace(t[k])} IN
    IF keep = {} THEN <<>>
    ELSE LET lo == CHOOSE k \in keep : \A j \in keep : k <= j
             hi == CHOOSE k \in keep : \A j \in keep : k >= j
         IN  SubSeq(t, lo, hi)

Folded(t) == [k \in 1..Len(t) |-> IF t[k] \in 65..90 THEN t[k] + 32 ELSE t[k]]

ExpectedSet(raw) ==
    {Folded(Trimmed(raw[k])) : k \in {j \in 1..Len(raw) : PassesPredicate(Trimmed(raw[j]))}}

IsAscendingListOf(s, S) ==
    /\ Range(s) = S
    /\ Len(s) = Cardinality(S)
    /\ \A j, k \in 1..Len(s) : j < k => StrLess(s[j], s[k])

\* C1: process_words returns exactly the ascending list of the distinct
\* lowercase forms of the tokens that pass the acceptance predicate, and the
\* end-to-end scenario input yields exactly ["apple", "brick", "fjord"].
C1_FilterOutput ==
    Returned =>
        /\ IsAscendingListOf(words, ExpectedSet(raw_words))
        /\ (raw_words = ScenarioInput => words = <<W_apple, W_brick, W_fjord>>)

C1_Witness == Returned /\ raw_words = ScenarioInput /\ Len(words) = 3

IsFiveLowercase(w) == Len(w) = 5 /\ \A k \in 1..5 : w[k] \in 97..122

\* C2: every word of the returned list, and of the accumulating result list
\* after each processed token, has length exactly 5 and only letters a-z.
C2_WordShape ==
    /\ \A k \in 1..Len(clean) : IsFiveLowercase(clean[k])
    /\ \A k \in 1..Len(words) : IsFiveLowercase(words[k])

C2_Witness ==
    /\ pc = "process_words"
    /\ i = 4
    /\ raw_words[1] = W_cafes
    /\ raw_words[2] = W_APPLE
    /\ raw_words[3] = W_wordle
    /\ clean = <<W_apple>>

\* C3: the returned list is strictly ascending by character code, so no two
\* entries are equal even when a word occurs several times or in several cases.
C3_StrictlyAscending ==
    Returned => \A k \in 1..(Len(words) - 1) : StrLess(words[k], words[k + 1])

C3_Witness ==
    /\ Returned
    /\ raw_words = <<W_brick, W_APPLE, W_apple>>
    /\ words = <<W_apple, W_brick>>

Reorderings(s) ==
    LET n == Len(s)
        bij == {f \in [1..n -> 1..n] : \A j, k \in 1..n : f[j] = f[k] => j = k}
    IN  {[k \in 1..n |-> s[f[k]]] : f \in bij}

\* C10: process_words returns the identical list for every permutation of
\* its input (checked for all inputs of at most MaxTokens tokens).
C10_OrderIndependent ==
    (Returned /\ Len(raw_words) <= MaxTokens) =>
        \A p \in Reorderings(raw_words) : ProcessWords(p) = words

C10_Witness ==
    /\ Returned
    /\ raw_words = <<W_fjord, W_padded, W_Apple>>
    /\ words = <<W_apple, W_brick, W_fjord>>

\* -------------------------------------------------------------------------
\* Properties of the run of main
\* -------------------------------------------------------------------------
Visiting == pc = "extract_loop" /\ idx <= Len(members)

\* the step appends the lines of the visited member and counts the file
Contributes == /\ raw_words' = raw_words \o members[idx].lines
               /\ files_read' = files_read + 1

\* the step collects nothing
CollectsNothing == raw_words' = raw_words /\ files_read' = files_read

\* C4: get_download_url never fails: for every outcome of the metadata query
\* it returns the tarball URL reported by the endpoint or FALLBACK_URL.
C4_ResolverNeverFails ==
    [][pc = "get_download_url" =>
          /\ pc' = "download_tarball"
          /\ url' \in TarballUrls \cup {FALLBACK_URL}]_vars

FatalReasons == {"Download failed", "Traceback in download_tarball",
                 "Failed to read tarball", "Traceback in tarfile.open",
                 "No words found"}

\* C5: a run in which the download fails, the archive cannot be opened or the
\* filtered word set is empty has terminated with a non-zero exit status
\* without writing either output file; an output file is written only once
\* the word set is final and non-empty.
C5_FatalWritesNothing ==
    /\ exit_reason \in FatalReasons =>
          /\ pc = "exit"
          /\ exit_status > 0
          /\ ~ENABLED Next
          /\ ~txt_written /\ ~json_written
    /\ (txt_written \/ json_written) =>
          /\ pc \in {"done", "exit"}
          /\ words # <<>>
          /\ i > Len(raw_words)
          /\ IsAscendingListOf(words, ExpectedSet(raw_words))
          /\ out_txt = words
          /\ json_written => out_json = words

C5_Witness ==
    /\ pc = "exit"
    /\ exit_reason = "No words found"
    /\ exit_status = 1
    /\ files_read = 2
    /\ raw_words = <<W_cafes, W_12345>>
    /\ ~txt_written /\ ~json_written

\* a member that cannot be extracted or cannot be read
MemberFails(m) == m.kind \in {"dangling_link", "unreadable"}

\* C6: a failure confined to one archive member makes extract_words skip the
\* member and go on with the next one; it does not end the run.
C6_MemberFailureSkipped ==
    [][(Visiting /\ MemberFails(members[idx])) =>
          /\ pc' = "extract_loop"
          /\ idx' = idx + 1
          /\ CollectsNothing
          /\ exit_status' = -1]_vars

\* C7: lines are collected only from members whose level, parsed from the
\* name, lies in 10..70 (both ends included): english-words.85 contributes
\* nothing, english-words.60 and the members of level 10 and 70 contribute
\* their lines.
C7_LevelBounds ==
    [][/\ ~CollectsNothing =>
            /\ Visiting
            /\ Matches(Basename(members[idx].name))
            /\ Level(Basename(members[idx].name)) \in 10..70
       /\ (Visiting /\ members[idx].name = N_english_words_85) => CollectsNothing
       /\ (Visiting /\ members[idx].name \in {N_english_words_60, N_english_10, N_ENGLISH_70}
                    /\ members[idx].kind = "file") => Contributes]_vars

C7_Witness ==
    /\ pc = "extract_loop"
    /\ idx = 3
    /\ members[1].name = N_english_words_85
    /\ members[2].name = N_english_words_60
    /\ raw_words = <<W_fjord, W_word>>
    /\ files_read = 1

\* C8: the temporary directory no longer exists when filtering or output
\* writing is under way, nor in any state in which the run has ended.
C8_TmpDirRemoved ==
    pc \in {"process_words", "check_words", "save_outputs", "done", "exit"} => ~tmp_dir

C8_Witness ==
    /\ pc = "exit"
    /\ exit_reason = "Failed to read tarball"
    /\ tarball.state = "not_gzip"
    /\ ~tmp_dir

EndsWith(s, t) == Len(s) >= Len(t) /\ SubSeq(s, Len(s) - Len(t) + 1, Len(s)) = t

\* the last "." of the name, 0 when there is none
LastDot(name) ==
    LET dots == {k \in 1..Len(name) : name[k] = 46} IN
    IF dots = {} THEN 0 ELSE CHOOSE k \in dots : \A j \in dots : j <= k

\* base name "." integer, the base being a variant name or ending in
\* "-words" or "-word"
HasForm(base, digits) ==
    /\ digits # <<>>
    /\ \A k \in 1..Len(digits) : IsDigit(digits[k])
    /\ \/ base \in Variants
       \/ \E t \in WordSuffixes : EndsWith(base, t)

\* the form of the name as stated: literal spelling, nothing after the integer
LiteralForm(name) ==
    /\ LastDot(name) > 0
    /\ HasForm(SubSeq(name, 1, LastDot(name) - 1),
               SubSeq(name, LastDot(name) + 1, Len(name)))

LiteralLevel(name) == IntOf(SubSeq(name, LastDot(name) + 1, Len(name)))

\* the name without one final line feed
DropFinalLF(name) ==
    IF name # <<>> /\ name[Len(name)] = 10 THEN SubSeq(name, 1, Len(name) - 1) ELSE name

\* the form compared case-insensitively, one final line feed tolerated and
\* no line feed before the "-word(s)" ending
CaselessForm(name) ==
    LET n == DropFinalLF(name)
        base == SubSeq(n, 1, LastDot(n) - 1)
    IN  /\ LastDot(n) > 0
        /\ HasForm(Folded(base), SubSeq(n, LastDot(n) + 1, Len(n)))
        /\ Folded(base) \notin Variants =>
              \E t \in WordSuffixes :
                  /\ EndsWith(Folded(base), t)
                  /\ \A k \in 1..(Len(base) - Len(t)) : base[k] # 10

CaselessLevel(name) ==
    LET n == DropFinalLF(name) IN IntOf(SubSeq(n, LastDot(n) + 1, Len(n)))

\* C9 as stated: a member contributes its lines exactly when its base name has
\* the literal form and its level is within bounds.
C9_LiteralQualification ==
    [][Visiting =>
          LET filename == Basename(members[idx].name) IN
          IF LiteralForm(filename) /\ LiteralLevel(filename) \in MIN_LEVEL..MAX_LEVEL
          THEN Contributes ELSE CollectsNothing]_vars

\* C9 (amended): a member contributes its lines exactly when its base name
\* has the form compared case-insensitively (at most one final line feed
\* after the integer), its level is within bounds and it is a regular file
\* whose content can be read; any other member contributes nothing.
C9_Qualification ==
    [][Visiting =>
          LET filename == Basename(members[idx].name) IN
          IF /\ CaselessForm(filename)
             /\ CaselessLevel(filename) \in MIN_LEVEL..MAX_LEVEL
             /\ members[idx].kind = "file"
          THEN Contributes ELSE CollectsNothing]_vars

C9_Witness ==
    /\ pc = "extract_loop"
    /\ idx = 3
    /\ members[1].name = N_ENGLISH_70
    /\ members[2].name = N_xenglish_20
    /\ raw_words = <<W_Apple>>
    /\ files_read = 1

====
